---- MODULE Spec2Model ----
(***************************************************************************)
(* Model of the history bot (src/x.py): module start-up with the check of  *)
(* the required environment variables, the three stages of HistoryBot      *)
(* (fetch_historical_events, generate_tweet_with_gemini, post_tweet), the  *)
(* orchestrator HistoryBot.run and main's exit status.                     *)
(*                                                                         *)
(* Strings are sequences of one-character tokens; a Python list is a       *)
(* sequence; Python's None is the one-element sequence None.               *)
(***************************************************************************)
EXTENDS Integers, Sequences, FiniteSets, TLC

VARIABLES
    pc,               \* position of the process / of the orchestrator
    env,              \* the environment: variable name -> "absent" | "empty" | "set"
    stage_calls,      \* the stage methods invoked so far, in order
    today,            \* get_formatted_date's reading of datetime.now() (<<>> before)
    formatted_date,   \* the date label get_formatted_date returned (<<>> before)
    events,           \* run's local `events`: what fetch returned, generate's argument (<<>> before)
    tweet_text,       \* run's local `tweet_text`: what generate returned, post_tweet's argument
    success,          \* run's local `success`: <<>> until post_tweet returns, then <<TRUE>> or <<FALSE>>
    run_result,       \* <<>> until run returns, then <<TRUE>> or <<FALSE>>
    exit_status,      \* <<>> while the process runs, then <<0>> or <<1>>
    feed_response,    \* the feed's last response (<<>> before)
    tweet_response,   \* create_tweet's last outcome (<<>> before)
    feed_gets,        \* number of requests.get calls to the event feed
    gemini_posts,     \* number of requests.post calls to the generation provider
    tweet_calls,      \* number of twitter_client.create_tweet calls
    gemini_request,   \* the generation request in flight: <<prompt>>, or <<>> when none is
    gemini_response,  \* the provider's last response (<<>> before)
    posted_text,      \* the text handed to create_tweet (None when it was never called)
    log,              \* the last message logged at warning or error level
    raised            \* the exception that left a stage or the module (NoExc when none did)

vars == <<pc, env, stage_calls, today, formatted_date, events, tweet_text, success,
          run_result, exit_status, feed_gets, gemini_posts, tweet_calls,
          gemini_request, gemini_response, posted_text, log, raised,
          feed_response, tweet_response>>

----------------------------------------------------------------------------
(* Bounds of the model                                                      *)

MaxBlocks == 5     \* a completion is made of at most this many blocks
MaxEvents == 2     \* the feed returns at most this many events

----------------------------------------------------------------------------
(* Python values                                                            *)

None == <<"<None>">>
NoExc == "NoExc"

\* Python truthiness of a str or None: `if not x`
Truthy(x) == x # None /\ x # <<>>

\* Python truthiness of a list
TruthyList(x) == x # <<>>

Min(a, b) == IF a < b THEN a ELSE b

\* characters
LF == "LF"         \* '\n'
SP == "SP"         \* ' '
DOT == "."

IsSpace(c) == c \in {LF, SP}

\* n copies of c
Rep(c, n) == [i \in 1..n |-> c]

----------------------------------------------------------------------------
(* str and list operations used by the code                                 *)

\* index of the first non-whitespace character at or after i (Len(s)+1 when none)
RECURSIVE SkipSpaceRight(_, _)
SkipSpaceRight(s, i) ==
    IF i <= Len(s) /\ IsSpace(s[i]) THEN SkipSpaceRight(s, i + 1) ELSE i

\* index of the last non-whitespace character at or before i (0 when none)
RECURSIVE SkipSpaceLeft(_, _)
SkipSpaceLeft(s, i) ==
    IF i >= 1 /\ IsSpace(s[i]) THEN SkipSpaceLeft(s, i - 1) ELSE i

\* str.strip(): drops leading and trailing whitespace
Strip(s) == SubSeq(s, SkipSpaceRight(s, 1), SkipSpaceLeft(s, Len(s)))

\* str.split(sep): the pieces between the occurrences of sep (always >= 1 piece)
Split(s, sep) ==
    LET at     == {i \in 1..Len(s) : s[i] = sep}
        n      == Cardinality(at)
        Kth(k) == CHOOSE i \in at : Cardinality({j \in at : j < i}) = k - 1
        from(k) == IF k = 1 THEN 1 ELSE Kth(k - 1) + 1
        to(k)   == IF k = n + 1 THEN Len(s) ELSE Kth(k) - 1
    IN  [k \in 1..(n + 1) |-> SubSeq(s, from(k), to(k))]

\* sep.join(parts)
RECURSIVE Join(_, _)
Join(sep, parts) ==
    IF parts = <<>> THEN <<>>
    ELSE IF Len(parts) = 1 THEN parts[1]
    ELSE parts[1] \o sep \o Join(sep, Tail(parts))

\* s[:n]
Prefix(s, n) == SubSeq(s, 1, Min(n, Len(s)))

\* s[-1:]
LastSlice(s) == IF s = <<>> THEN <<>> ELSE SubSeq(s, Len(s), Len(s))

----------------------------------------------------------------------------
(* Module start-up: src/x.py lines 16-48                                    *)

required_vars_without_gemini ==
    <<"API_KEY", "API_SECRET", "ACCESS_TOKEN", "ACCESS_SECRET">>

required_vars ==
    <<"API_KEY", "API_SECRET", "ACCESS_TOKEN", "ACCESS_SECRET", "GEMINI_API_KEY">>

\* the variables the module reads and later uses
EnvVars == {"BEARER_TOKEN", "API_KEY", "API_SECRET", "ACCESS_TOKEN",
            "ACCESS_SECRET", "GEMINI_API_KEY"}

EnvValues == {"absent", "empty", "set"}

\* os.getenv(var): None when the variable is absent
getenv(var) ==
    CASE env[var] = "absent" -> None
      [] env[var] = "empty"  -> <<>>
      [] env[var] = "set"    -> <<"s">>

missing_vars == SelectSeq(required_vars, LAMBDA v : ~Truthy(getenv(v)))

----------------------------------------------------------------------------
(* Exceptions: the classes the code's except clauses name                   *)

\* the classes an exception is an instance of
Bases(exc) ==
    CASE exc \in {"ConnectionError", "Timeout", "HTTPError", "RequestsJSONDecodeError"}
              -> {exc, "RequestException", "Exception"}
      [] exc \in {"TooManyRequests", "Forbidden", "Unauthorized", "BadRequest"}
              -> {exc, "HTTPException", "TweepyException", "Exception"}
      [] OTHER -> {exc, "Exception"}

IsInstance(exc, cls) == cls \in Bases(exc)

\* what a stage's body or a whole stage yields: a return value, or an exception
Return(v, msg) == [ret |-> v, log |-> msg, exc |-> NoExc]
Raise(e)       == [ret |-> None, log |-> "", exc |-> e]

----------------------------------------------------------------------------
(* HistoryBot.get_formatted_date: src/x.py lines 58-70                      *)

MonthAbbr == <<"Jan", "Feb", "Mar", "Apr", "May", "Jun",
               "Jul", "Aug", "Sep", "Oct", "Nov", "Dec">>

DaysIn == <<31, 29, 31, 30, 31, 30, 31, 31, 30, 31, 30, 31>>

\* datetime.now(): the dates of a (leap) year
Dates == {d \in [month : 1..12, day : 1..31] : d.day <= DaysIn[d.month]}

DigitChars == <<"0", "1", "2", "3", "4", "5", "6", "7", "8", "9">>

\* str(n) for n >= 0
RECURSIVE Str(_)
Str(n) == IF n < 10 THEN <<DigitChars[n + 1]>>
          ELSE Str(n \div 10) \o <<DigitChars[(n % 10) + 1]>>

\* a variant that forgets the teens
OrdinalSuffixLastDigitOnly(day) ==
    CASE day % 10 = 1 -> "st"
      [] day % 10 = 2 -> "nd"
      [] day % 10 = 3 -> "rd"
      [] OTHER        -> "th"

\* lines 65-68
OrdinalSuffix(day) ==
    IF 10 <= day % 100 /\ day % 100 <= 20 THEN "th"
    ELSE CASE day % 10 = 1 -> "st"
           [] day % 10 = 2 -> "nd"
           [] day % 10 = 3 -> "rd"
           [] OTHER        -> "th"

\* f"{month_name} {day}{suffix}"
get_formatted_date(now) ==
    <<MonthAbbr[now.month], SP>> \o Str(now.day) \o <<OrdinalSuffix(now.day)>>

----------------------------------------------------------------------------
(* HistoryBot.fetch_historical_events: src/x.py lines 72-97                 *)

\* the event objects of the feed: complete, or with a field missing
FeedEvents == { [year |-> <<"1", "9">>, description |-> <<"d">>],
                [description |-> <<"d">>],
                [year |-> <<"1", "9">>] }

FeedEventLists == UNION {[1..k -> FeedEvents] : k \in 0..MaxEvents}

\* what the GET of the feed can come to
FeedResponses ==
    {[kind |-> k, events |-> <<>>] :
        k \in {"conn_error", "timeout", "http_error", "bad_json", "bad_json_requests",
               "not_object", "no_events_key", "events_null"}}
    \cup {[kind |-> "ok", events |-> es] : es \in FeedEventLists}

\* f"{event['year']}: {event['description']}"
FormatEvent(event) == event.year \o <<":", SP>> \o event.description

\* lines 75-90: the body of the try
FetchBody(resp) ==
    CASE resp.kind = "conn_error"        -> Raise("ConnectionError")
      [] resp.kind = "timeout"           -> Raise("Timeout")
      [] resp.kind = "http_error"        -> Raise("HTTPError")
      [] resp.kind = "bad_json"          -> Raise("ValueError")
      [] resp.kind = "bad_json_requests" -> Raise("RequestsJSONDecodeError")
      [] resp.kind = "not_object"        -> Raise("AttributeError")
      [] resp.kind = "events_null"       -> Raise("TypeError")
      [] resp.kind = "no_events_key"     -> Return(<<>>, "")
      [] OTHER ->
            IF \E i \in 1..Len(resp.events) :
                    {"year", "description"} \ DOMAIN resp.events[i] # {}
            THEN Raise("KeyError")
            ELSE Return([i \in 1..Len(resp.events) |-> FormatEvent(resp.events[i])], "")

\* a fetch that handles only the request errors
FetchOnlyRequestErrors(resp) ==
    LET r == FetchBody(resp)
    IN  IF r.exc = NoExc THEN r
        ELSE IF IsInstance(r.exc, "RequestException")
             THEN Return(<<>>, "Error fetching events")
        ELSE r

\* lines 74-97: the try with its two except clauses
fetch_historical_events(resp) ==
    LET r == FetchBody(resp)
    IN  IF r.exc = NoExc THEN r
        ELSE IF IsInstance(r.exc, "RequestException")
             THEN Return(<<>>, "Error fetching events")
        ELSE IF IsInstance(r.exc, "Exception")
             THEN Return(<<>>, "Unexpected error")
        ELSE r

----------------------------------------------------------------------------
(* HistoryBot.generate_tweet_with_gemini: src/x.py lines 99-180             *)

TWEET_LIMIT == 280     \* lines 159 and 166
TRUNCATE_AT == 277     \* line 167

\* the blocks completions are made of: a short line, a long line, a space
ShortLine == <<"a", LF>>
LongLine  == Rep("b", TWEET_LIMIT - 2) \o <<LF>>
Blank     == <<SP>>
Blocks    == {ShortLine, LongLine, Blank}

RECURSIVE Flatten(_)
Flatten(bs) == IF bs = <<>> THEN <<>> ELSE bs[1] \o Flatten(Tail(bs))

\* the completion texts the provider may return
Completions == {Flatten(bs) : bs \in UNION {[1..k -> Blocks] : k \in 0..MaxBlocks}}

\* what the POST to the provider can come to
GeminiResponses ==
    {[kind |-> k, text |-> <<>>] :
        k \in {"conn_error", "timeout", "http_error", "bad_json", "bad_json_requests",
               "null_json", "not_object", "no_candidates", "empty_candidates",
               "missing_field"}}
    \cup {[kind |-> "ok", text |-> t] : t \in Completions}

\* lines 101-102: `if not events: return None`
GenerateReturnsEarly(events_arg) == ~TruthyList(events_arg)

\* lines 104-128: the prompt embeds the date label and the joined events
BuildPrompt(events_arg, now) ==
    [formatted_date |-> get_formatted_date(now),
     events_text    |-> Join(<<LF>>, events_arg)]

\* a repair that leaves out the final truncation
RepairLengthNoTruncation(text) ==
    IF Len(text) > TWEET_LIMIT
    THEN LET lines == Split(text, LF)
         IN  IF Len(lines) >= 4
             THEN Join(<<LF>>, SubSeq(lines, 1, 3) \o LastSlice(lines))
             ELSE text
    ELSE text

\* lines 159-167: the length repair of the trimmed text
RepairLength(text) ==
    IF Len(text) > TWEET_LIMIT
    THEN LET lines == Split(text, LF)
         IN  IF Len(lines) >= 4
             THEN LET rebuilt == Join(<<LF>>, SubSeq(lines, 1, 3) \o LastSlice(lines))
                  IN  IF Len(rebuilt) > TWEET_LIMIT
                      THEN Prefix(rebuilt, TRUNCATE_AT) \o <<DOT, DOT, DOT>>
                      ELSE rebuilt
             ELSE text
    ELSE text

\* an extraction that forgets to strip
ExtractTextUntrimmed(resp) == resp.text

\* line 156: result['candidates'][0]['content']['parts'][0]['text'].strip()
ExtractText(resp) == Strip(resp.text)

\* lines 145-173: the body of the try
GenerateBody(resp) ==
    CASE resp.kind = "conn_error"        -> Raise("ConnectionError")
      [] resp.kind = "timeout"           -> Raise("Timeout")
      [] resp.kind = "http_error"        -> Raise("HTTPError")
      [] resp.kind = "bad_json"          -> Raise("ValueError")
      [] resp.kind = "bad_json_requests" -> Raise("RequestsJSONDecodeError")
      [] resp.kind = "null_json"         -> Raise("TypeError")
      [] resp.kind \in {"not_object", "no_candidates", "empty_candidates"}
                                         -> Return(None, "No content generated by Gemini")
      [] resp.kind = "missing_field"     -> Raise("KeyError")
      [] OTHER ->
            LET text == ExtractText(resp)
            IN  Return(RepairLength(text),
                       IF Len(text) > TWEET_LIMIT THEN "Generated tweet too long" ELSE "")

\* lines 144-180: the try with its two except clauses
GenerateHandle(resp) ==
    LET r == GenerateBody(resp)
    IN  IF r.exc = NoExc THEN r
        ELSE IF IsInstance(r.exc, "RequestException")
             THEN Return(None, "Error calling Gemini API")
        ELSE IF IsInstance(r.exc, "Exception")
             THEN Return(None, "Error processing Gemini response")
        ELSE r

----------------------------------------------------------------------------
(* HistoryBot.post_tweet: src/x.py lines 182-204                            *)

\* what twitter_client.create_tweet can come to
TweetResponses == {"ok", "no_data", "rate_limit", "forbidden", "unauthorized",
                   "conn_error"}

\* an early return that lets the empty string through
PostReturnsEarlyOnNoneOnly(text) == text = None

\* lines 184-186: `if not text: ... return False`
PostReturnsEarly(text) == ~Truthy(text)

\* lines 189-194: the body of the try
PostBody(resp) ==
    CASE resp = "ok"           -> Return(TRUE, "")
      [] resp = "no_data"      -> Raise("TypeError")
      [] resp = "rate_limit"   -> Raise("TooManyRequests")
      [] resp = "forbidden"    -> Raise("Forbidden")
      [] resp = "unauthorized" -> Raise("Unauthorized")
      [] OTHER                 -> Raise("ConnectionError")

\* lines 188-204: the try with its three except clauses
PostHandle(resp) ==
    LET r == PostBody(resp)
    IN  IF r.exc = NoExc THEN r
        ELSE IF IsInstance(r.exc, "TooManyRequests")
             THEN Return(FALSE, "Twitter API rate limit exceeded")
        ELSE IF IsInstance(r.exc, "Forbidden")
             THEN Return(FALSE, "Twitter API access forbidden")
        ELSE IF IsInstance(r.exc, "Exception")
             THEN Return(FALSE, "Error posting tweet")
        ELSE r

----------------------------------------------------------------------------
(* HistoryBot.run and main: src/x.py lines 206-235                          *)

\* the dates the pipeline is run on
RunDates == { [month |-> 8, day |-> 14], [month |-> 12, day |-> 22] }

\* a run that goes on to generate whatever fetch returned
RunAfterFetchNoCheck(evs) == "GENERATING"

\* lines 211-214
RunAfterFetch(evs) == IF ~TruthyList(evs) THEN "ABORTED" ELSE "GENERATING"

\* lines 217-220
RunAfterGenerate(text) == IF ~Truthy(text) THEN "ABORTED" ELSE "PUBLISHING"

\* a run that tries a failed post a second time
RunAfterPublishRetryOnce(ok) ==
    IF ok THEN "DONE" ELSE IF tweet_calls = 0 THEN "PUBLISHING" ELSE "ABORTED"

\* a run that reports success whatever post_tweet returned
RunAfterPublishAlwaysDone(ok) == "DONE"

\* lines 223-229
RunAfterPublish(ok) == IF ok THEN "DONE" ELSE "ABORTED"

\* the warning or error run logs on its way out (lines 213, 219, 228)
RunLog(next, msg) ==
    IF next # "ABORTED" THEN msg
    ELSE CASE pc = "FETCHING"   -> "No events fetched, exiting"
           [] pc = "GENERATING" -> "Failed to generate tweet, exiting"
           [] OTHER             -> "Bot failed to post tweet"

\* run goes to `next`; when it returns, main exits (line 235)
RunGoes(next) ==
    /\ pc' = next
    /\ run_result' = CASE next = "DONE"    -> <<TRUE>>
                       [] next = "ABORTED" -> <<FALSE>>
                       [] OTHER            -> run_result
    /\ exit_status' = CASE next = "DONE"    -> <<0>>
                        [] next = "ABORTED" -> <<1>>
                        [] OTHER            -> exit_status

\* an exception leaves a stage: it leaves run and main too, and the
\* interpreter exits with status 1
Crash(exc) ==
    /\ pc' = "CRASHED"
    /\ raised' = exc
    /\ exit_status' = <<1>>
    /\ UNCHANGED run_result

Init ==
    /\ pc = "START"
    /\ env \in [EnvVars -> EnvValues]
    /\ stage_calls = <<>>
    /\ today = <<>>
    /\ formatted_date = <<>>
    /\ events = <<>>
    /\ tweet_text = None
    /\ success = <<>>
    /\ run_result = <<>>
    /\ exit_status = <<>>
    /\ feed_gets = 0
    /\ gemini_posts = 0
    /\ tweet_calls = 0
    /\ gemini_request = <<>>
    /\ gemini_response = <<>>
    /\ posted_text = None
    /\ log = ""
    /\ raised = NoExc
    /\ feed_response = <<>>
    /\ tweet_response = <<>>

\* lines 31-48 and 231-234: the module validates the environment, builds the
\* client; main builds the bot and calls run
Startup ==
    /\ pc = "START"
    /\ IF missing_vars # <<>>
       THEN Crash("ValueError")
       ELSE /\ pc' = "FETCHING"
            /\ UNCHANGED <<raised, exit_status, run_result>>
    /\ UNCHANGED <<env, stage_calls, today, formatted_date, events, tweet_text,
                   success, feed_gets, gemini_posts, tweet_calls, gemini_request,
                   gemini_response, posted_text, log, feed_response, tweet_response>>

\* line 211 with the stage it calls, then lines 212-214
Fetch ==
    /\ pc = "FETCHING"
    /\ \E resp \in FeedResponses :
         LET r == fetch_historical_events(resp)
         IN  /\ stage_calls' = Append(stage_calls, "fetch")
             /\ feed_gets' = feed_gets + 1
             /\ feed_response' = <<resp>>
             /\ IF r.exc # NoExc
                THEN /\ Crash(r.exc)
                     /\ UNCHANGED <<events, log>>
                ELSE /\ events' = r.ret
                     /\ RunGoes(RunAfterFetch(r.ret))
                     /\ log' = RunLog(RunAfterFetch(r.ret), r.log)
                     /\ UNCHANGED raised
    /\ UNCHANGED <<env, today, formatted_date, tweet_text, success, gemini_posts,
                   tweet_calls, gemini_request, gemini_response, posted_text,
                   tweet_response>>

\* line 217 with lines 101-150: generate is entered and, unless it returns
\* early, sends its request
GenerateCall ==
    /\ pc = "GENERATING"
    /\ gemini_request = <<>>
    /\ stage_calls' = Append(stage_calls, "generate")
    /\ IF GenerateReturnsEarly(events)
       THEN /\ tweet_text' = None
            /\ RunGoes(RunAfterGenerate(None))
            /\ log' = RunLog(RunAfterGenerate(None), log)
            /\ UNCHANGED <<today, formatted_date, gemini_posts, gemini_request>>
       ELSE /\ \E t \in RunDates :
                 /\ today' = <<t>>
                 /\ formatted_date' = get_formatted_date(t)
                 /\ gemini_request' = <<BuildPrompt(events, t)>>
            /\ gemini_posts' = gemini_posts + 1
            /\ UNCHANGED <<pc, run_result, exit_status, tweet_text, log>>
    /\ UNCHANGED <<env, events, success, feed_gets, tweet_calls, gemini_response,
                   posted_text, raised, feed_response, tweet_response>>

\* lines 151-180, then lines 218-220: the provider's response is processed
GenerateReturn ==
    /\ pc = "GENERATING"
    /\ gemini_request # <<>>
    /\ \E resp \in GeminiResponses :
         LET r == GenerateHandle(resp)
         IN  /\ gemini_response' = <<resp>>
             /\ gemini_request' = <<>>
             /\ IF r.exc # NoExc
                THEN /\ Crash(r.exc)
                     /\ UNCHANGED <<tweet_text, log>>
                ELSE /\ tweet_text' = r.ret
                     /\ RunGoes(RunAfterGenerate(r.ret))
                     /\ log' = RunLog(RunAfterGenerate(r.ret), r.log)
                     /\ UNCHANGED raised
    /\ UNCHANGED <<env, stage_calls, today, formatted_date, events, success,
                   feed_gets, gemini_posts, tweet_calls, posted_text,
                   feed_response, tweet_response>>

\* line 223 with the stage it calls, then lines 224-229
Publish ==
    /\ pc = "PUBLISHING"
    /\ stage_calls' = Append(stage_calls, "publish")
    /\ IF PostReturnsEarly(tweet_text)
       THEN /\ success' = <<FALSE>>
            /\ RunGoes(RunAfterPublish(FALSE))
            /\ log' = RunLog(RunAfterPublish(FALSE), "No text provided for tweet")
            /\ UNCHANGED <<tweet_calls, posted_text, raised, tweet_response>>
       ELSE \E resp \in TweetResponses :
              LET r == PostHandle(resp)
              IN  /\ tweet_calls' = tweet_calls + 1
                  /\ tweet_response' = <<resp>>
                  /\ posted_text' = tweet_text
                  /\ IF r.exc # NoExc
                     THEN /\ Crash(r.exc)
                          /\ UNCHANGED <<success, log>>
                     ELSE /\ success' = <<r.ret>>
                          /\ RunGoes(RunAfterPublish(r.ret))
                          /\ log' = RunLog(RunAfterPublish(r.ret), r.log)
                          /\ UNCHANGED raised
    /\ UNCHANGED <<env, today, formatted_date, events, tweet_text, feed_gets,
                   gemini_posts, gemini_request, gemini_response, feed_response>>

Next == Startup \/ Fetch \/ GenerateCall \/ GenerateReturn \/ Publish

Spec == Init /\ [][Next]_vars

\* the process is single-threaded and each external call returns or raises:
\* a step that can be taken is taken
FairSpec == Init /\ [][Next]_vars /\ WF_vars(Next)

----------------------------------------------------------------------------
(* The methods of HistoryBot called one at a time, each with any argument   *)

\* arguments for generate: the lists fetch can return, the empty one among them
EventArgs == {fetch_historical_events(resp).ret : resp \in FeedResponses}

\* arguments for post_tweet: None, the empty string, the texts generate can return
TextArgs == {None, <<>>} \cup {GenerateHandle(resp).ret : resp \in GeminiResponses}

\* the module has loaded (the required variables are set) and a bot exists
StageInit ==
    /\ pc = "IDLE"
    /\ env \in [EnvVars -> EnvValues]
    /\ missing_vars = <<>>
    /\ stage_calls = <<>>
    /\ today = <<>>
    /\ formatted_date = <<>>
    /\ events = <<>>
    /\ tweet_text = None
    /\ success = <<>>
    /\ run_result = <<>>
    /\ exit_status = <<>>
    /\ feed_gets = 0
    /\ gemini_posts = 0
    /\ tweet_calls = 0
    /\ gemini_request = <<>>
    /\ gemini_response = <<>>
    /\ posted_text = None
    /\ log = ""
    /\ raised = NoExc
    /\ feed_response = <<>>
    /\ tweet_response = <<>>

\* bot.get_formatted_date() on any date
CallGetFormattedDate ==
    /\ pc = "IDLE"
    /\ \E t \in Dates :
         /\ today' = <<t>>
         /\ formatted_date' = get_formatted_date(t)
    /\ stage_calls' = Append(stage_calls, "get_formatted_date")
    /\ pc' = "RETURNED"
    /\ UNCHANGED <<env, events, tweet_text, success, run_result, exit_status,
                   feed_gets, gemini_posts, tweet_calls, gemini_request,
                   gemini_response, posted_text, log, raised, feed_response,
                   tweet_response>>

\* bot.fetch_historical_events()
CallFetch ==
    /\ pc = "IDLE"
    /\ \E resp \in FeedResponses :
         LET r == fetch_historical_events(resp)
         IN  /\ feed_response' = <<resp>>
             /\ events' = IF r.exc = NoExc THEN r.ret ELSE events
             /\ log' = r.log
             /\ raised' = r.exc
    /\ feed_gets' = feed_gets + 1
    /\ stage_calls' = Append(stage_calls, "fetch")
    /\ pc' = "RETURNED"
    /\ UNCHANGED <<env, today, formatted_date, tweet_text, success, run_result,
                   exit_status, gemini_posts, tweet_calls, gemini_request,
                   gemini_response, posted_text, tweet_response>>

\* bot.generate_tweet_with_gemini(events_arg), up to its early return or its request
CallGenerate ==
    /\ pc = "IDLE"
    /\ stage_calls' = Append(stage_calls, "generate")
    /\ \E events_arg \in EventArgs :
         /\ events' = events_arg
         /\ IF GenerateReturnsEarly(events_arg)
            THEN /\ tweet_text' = None
                 /\ pc' = "RETURNED"
                 /\ UNCHANGED <<today, formatted_date, gemini_posts, gemini_request>>
            ELSE /\ \E t \in RunDates :
                      /\ today' = <<t>>
                      /\ formatted_date' = get_formatted_date(t)
                      /\ gemini_request' = <<BuildPrompt(events_arg, t)>>
                 /\ gemini_posts' = gemini_posts + 1
                 /\ pc' = "IN_GENERATE"
                 /\ UNCHANGED tweet_text
    /\ UNCHANGED <<env, success, run_result, exit_status, feed_gets, tweet_calls,
                   gemini_response, posted_text, log, raised, feed_response,
                   tweet_response>>

\* the provider answers and generate returns
GenerateCompletes ==
    /\ pc = "IN_GENERATE"
    /\ \E resp \in GeminiResponses :
         LET r == GenerateHandle(resp)
         IN  /\ gemini_response' = <<resp>>
             /\ tweet_text' = IF r.exc = NoExc THEN r.ret ELSE tweet_text
             /\ log' = r.log
             /\ raised' = r.exc
    /\ gemini_request' = <<>>
    /\ pc' = "RETURNED"
    /\ UNCHANGED <<env, stage_calls, today, formatted_date, events, success,
                   run_result, exit_status, feed_gets, gemini_posts, tweet_calls,
                   posted_text, feed_response, tweet_response>>

\* bot.post_tweet(text)
CallPostTweet ==
    /\ pc = "IDLE"
    /\ stage_calls' = Append(stage_calls, "publish")
    /\ \E text \in TextArgs :
         /\ tweet_text' = text
         /\ IF PostReturnsEarly(text)
            THEN /\ success' = <<FALSE>>
                 /\ log' = "No text provided for tweet"
                 /\ UNCHANGED <<tweet_calls, posted_text, raised, tweet_response>>
            ELSE \E resp \in TweetResponses :
                   LET r == PostHandle(resp)
                   IN  /\ tweet_calls' = tweet_calls + 1
                       /\ tweet_response' = <<resp>>
                       /\ posted_text' = text
                       /\ success' = IF r.exc = NoExc THEN <<r.ret>> ELSE <<>>
                       /\ log' = r.log
                       /\ raised' = r.exc
    /\ pc' = "RETURNED"
    /\ UNCHANGED <<env, today, formatted_date, events, run_result, exit_status,
                   feed_gets, gemini_posts, gemini_request, gemini_response,
                   feed_response>>

StageNext == CallGetFormattedDate \/ CallFetch \/ CallGenerate \/ GenerateCompletes
             \/ CallPostTweet

StageSpec == StageInit /\ [][StageNext]_vars

----------------------------------------------------------------------------
(* Properties                                                               *)

Range(f) == {f[i] : i \in DOMAIN f}

Pipeline == <<"fetch", "generate", "publish">>

\* C1: a later stage is invoked only after every earlier stage returned a
\* non-empty result: generate only after fetch returned a non-empty list,
\* publish only after generate returned a non-empty candidate; and when fetch
\* returns no events (an empty feed or a failed fetch) neither generate nor
\* publish is invoked, run returns False and the exit status is 1.
C1_ShortCircuit ==
    /\ \E k \in 0..3 : stage_calls = SubSeq(Pipeline, 1, k)
    /\ "generate" \in Range(stage_calls) => feed_gets = 1 /\ events # <<>>
    /\ "publish" \in Range(stage_calls) =>
            /\ events # <<>>
            /\ gemini_posts = 1
            /\ tweet_text # None /\ tweet_text # <<>>
    /\ (stage_calls # <<>> /\ events = <<>>) =>
            /\ stage_calls = <<"fetch">>
            /\ gemini_posts = 0 /\ tweet_calls = 0
            /\ run_result = <<FALSE>>
            /\ exit_status = <<1>>

\* the feed answered with zero events and the run ended after fetch alone
C1_Witness ==
    /\ feed_response # <<>>
    /\ feed_response[1].kind = "ok" /\ feed_response[1].events = <<>>
    /\ stage_calls = <<"fetch">>
    /\ pc = "ABORTED" /\ exit_status = <<1>>

StageRank(p) ==
    CASE p = "START"      -> 0
      [] p = "FETCHING"   -> 1
      [] p = "GENERATING" -> 2
      [] p = "PUBLISHING" -> 3
      [] OTHER            -> 4

\* C2: whatever the stages' outcomes, a run makes each of the three external
\* calls at most once, only moves forward through FETCHING, GENERATING,
\* PUBLISHING, DONE (no step leaves DONE or ABORTED, a stage's failure leads
\* straight to ABORTED), and a run that has started ends in DONE or ABORTED.
C2_ForwardOnlyNoRetry ==
    /\ [](feed_gets <= 1 /\ gemini_posts <= 1 /\ tweet_calls <= 1)
    /\ [][ /\ pc \notin {"DONE", "ABORTED"}
           /\ StageRank(pc') >= StageRank(pc)
           /\ pc' = pc => pc = "GENERATING" /\ gemini_request = <<>> /\ gemini_request' # <<>>
           /\ (pc = "FETCHING" /\ events' = <<>>) => pc' = "ABORTED"
           /\ (pc = "GENERATING" /\ gemini_request # <<>> /\ ~Truthy(tweet_text'))
                 => pc' = "ABORTED"
           /\ (pc = "PUBLISHING" /\ success' # <<TRUE>>) => pc' = "ABORTED"
         ]_vars
    /\ [](pc = "FETCHING" => <>(pc \in {"DONE", "ABORTED"}))

\* the post failed and the run ended there, after one call of each kind
C2_Witness ==
    /\ pc = "ABORTED"
    /\ success = <<FALSE>>
    /\ feed_gets = 1 /\ gemini_posts = 1 /\ tweet_calls = 1

\* C3: the text handed to create_tweet is exactly the candidate generate
\* returned; run returns True, and the exit status is 0, exactly when fetch
\* returned a non-empty list, generate a non-empty candidate and post_tweet
\* True; in every other case in which the process has exited the status is 1.
C3_ExactTextAndExitStatus ==
    /\ tweet_calls > 0 =>
            /\ posted_text = tweet_text
            /\ gemini_response # <<>>
            /\ posted_text = GenerateHandle(gemini_response[1]).ret
    /\ run_result # <<>> =>
            (run_result = <<TRUE>>) <=>
                (events # <<>> /\ Truthy(tweet_text) /\ success = <<TRUE>>)
    /\ exit_status # <<>> =>
            /\ exit_status \in {<<0>>, <<1>>}
            /\ (exit_status = <<0>>) <=>
                    (/\ run_result = <<TRUE>>
                     /\ events # <<>> /\ Truthy(tweet_text) /\ success = <<TRUE>>)

\* a run that posted its candidate and exited with status 0
C3_Witness ==
    /\ pc = "DONE"
    /\ tweet_calls = 1 /\ posted_text = tweet_text
    /\ run_result = <<TRUE>> /\ exit_status = <<0>>

\* the completion generate received, when it received one
GotCompletion == gemini_response # <<>> /\ gemini_response[1].kind = "ok"

\* number of newline-separated lines of a text
LineCount(text) == Cardinality({i \in 1..Len(text) : text[i] = LF}) + 1

\* C4: when the trimmed completion is longer than 280 characters and has at
\* least 4 lines, generate returns its first 3 lines followed by its last
\* line; when that is itself longer than 280 characters the candidate is
\* exactly 280 characters: its first 277 characters followed by "...".
C4_Repair ==
    GotCompletion =>
        LET trimmed == Strip(gemini_response[1].text)
        IN  (Len(trimmed) > 280 /\ LineCount(trimmed) >= 4) =>
                LET lines   == Split(trimmed, LF)
                    rebuilt == lines[1] \o <<LF>> \o lines[2] \o <<LF>> \o lines[3]
                               \o <<LF>> \o lines[Len(lines)]
                IN  IF Len(rebuilt) > 280
                    THEN /\ Len(tweet_text) = 280
                         /\ SubSeq(tweet_text, 1, 277) = SubSeq(rebuilt, 1, 277)
                         /\ SubSeq(tweet_text, 278, 280) = <<DOT, DOT, DOT>>
                    ELSE tweet_text = rebuilt

\* an over-long completion of 4 lines or more whose rebuilt text was cut
C4_Witness ==
    /\ GotCompletion
    /\ LineCount(Strip(gemini_response[1].text)) >= 4
    /\ Len(Strip(gemini_response[1].text)) > 280
    /\ Len(tweet_text) = 280
    /\ tweet_text[280] = DOT

\* C5 as stated: a completion of at most 280 characters is returned unmodified.
C5_Unmodified ==
    (GotCompletion /\ Len(gemini_response[1].text) <= 280) =>
        tweet_text = gemini_response[1].text

\* C5, amended: a completion of at most 280 characters is returned with its
\* leading and trailing whitespace removed and otherwise unmodified (so
\* unmodified when it neither starts nor ends with whitespace).
C5_TrimmedOnly ==
    (GotCompletion /\ Len(gemini_response[1].text) <= 280) =>
        LET text == gemini_response[1].text
            n    == Len(text)
            m    == Len(tweet_text)
        IN  /\ tweet_text # None
            /\ m <= n
            /\ m > 0 => ~IsSpace(tweet_text[1]) /\ ~IsSpace(tweet_text[m])
            /\ \E i \in 0..(n - m) :
                    /\ SubSeq(text, i + 1, i + m) = tweet_text
                    /\ \A k \in 1..i : IsSpace(text[k])
                    /\ \A k \in (i + m + 1)..n : IsSpace(text[k])

\* a completion of at most 280 characters that generate returned trimmed
C5_Witness ==
    /\ GotCompletion
    /\ Len(gemini_response[1].text) <= 280
    /\ tweet_text # None /\ tweet_text # <<>>
    /\ tweet_text # gemini_response[1].text
    /\ pc = "PUBLISHING"

\* C6: every candidate generate returns, and every text handed to
\* create_tweet, is at most 280 characters long.
C6_AtMost280 ==
    /\ tweet_text # None => Len(tweet_text) <= 280
    /\ posted_text # None => Len(posted_text) <= 280

\* C7: generate called with an empty event list returns None and sends no
\* request; post_tweet called with an empty or absent text returns False and
\* makes no create_tweet call.
C7_EmptyInputNoCall ==
    /\ (stage_calls = <<"generate">> /\ events = <<>>) =>
            /\ pc = "RETURNED"
            /\ tweet_text = None
            /\ gemini_posts = 0 /\ gemini_request = <<>> /\ gemini_response = <<>>
    /\ (stage_calls = <<"publish">> /\ tweet_text \in {None, <<>>}) =>
            /\ pc = "RETURNED"
            /\ success = <<FALSE>>
            /\ tweet_calls = 0 /\ posted_text = None /\ tweet_response = <<>>

\* post_tweet was called with the empty string
C7_Witness ==
    /\ stage_calls = <<"publish">>
    /\ tweet_text = <<>>
    /\ success = <<FALSE>> /\ tweet_calls = 0

FeedFailed ==
    /\ feed_response # <<>>
    /\ \/ feed_response[1].kind \in {"conn_error", "timeout", "http_error", "bad_json",
                                     "bad_json_requests", "not_object", "events_null"}
       \/ \E i \in 1..Len(feed_response[1].events) :
                DOMAIN feed_response[1].events[i] # {"year", "description"}

GeminiFailed == gemini_response # <<>> /\ gemini_response[1].kind # "ok"

TweetFailed == tweet_response # <<>> /\ tweet_response # <<"ok">>

\* C8: no stage lets an exception out: on every failure of its external call
\* fetch returns the empty list, generate returns None (also when the
\* candidates are missing or empty) and post_tweet returns False (rate limit,
\* forbidden, any other error); run then returns False instead of crashing.
C8_ErrorsContained ==
    /\ stage_calls # <<>> => raised = NoExc /\ pc # "CRASHED"
    /\ FeedFailed => events = <<>> /\ pc = "ABORTED" /\ run_result = <<FALSE>>
    /\ GeminiFailed => tweet_text = None /\ pc = "ABORTED" /\ run_result = <<FALSE>>
    /\ TweetFailed => success = <<FALSE>> /\ pc = "ABORTED" /\ run_result = <<FALSE>>

\* the feed's JSON lacked a field and the run ended with a failure result
C8_Witness ==
    /\ feed_response # <<>>
    /\ feed_response[1].kind = "ok" /\ feed_response[1].events # <<>>
    /\ FeedFailed
    /\ pc = "ABORTED" /\ exit_status = <<1>>

\* C9: for every day from 1 to 31 the suffix of the date label is "th" for
\* 10 to 20, otherwise "st", "nd", "rd" for a last digit of 1, 2, 3, and "th"
\* for every other day.
C9_OrdinalSuffix ==
    formatted_date # <<>> =>
        LET day    == today[1].day
            suffix == formatted_date[Len(formatted_date)]
        IN  /\ day \in 1..31
            /\ suffix = (IF day \in 10..20 THEN "th"
                         ELSE IF day \in {1, 21, 31} THEN "st"
                         ELSE IF day \in {2, 22} THEN "nd"
                         ELSE IF day \in {3, 23} THEN "rd"
                         ELSE "th")

\* the label of an 11th
C9_Witness ==
    /\ stage_calls = <<"get_formatted_date">>
    /\ today[1].day = 11
    /\ formatted_date[Len(formatted_date)] = "th"

NothingRan ==
    /\ stage_calls = <<>>
    /\ feed_gets = 0 /\ gemini_posts = 0 /\ tweet_calls = 0
    /\ run_result = <<>>

\* C10 as stated: with any credential absent or empty, the bearer token
\* included, the process fails before the pipeline starts.
C10_AnyCredentialMissing ==
    (\E v \in {"BEARER_TOKEN", "API_KEY", "API_SECRET", "ACCESS_TOKEN",
               "ACCESS_SECRET", "GEMINI_API_KEY"} : env[v] # "set") =>
        /\ pc \in {"START", "CRASHED"}
        /\ NothingRan

\* C10, amended: with any of API_KEY, API_SECRET, ACCESS_TOKEN, ACCESS_SECRET
\* or GEMINI_API_KEY absent or empty the process fails before the pipeline
\* starts: run is never called and no fetch, generation or publish call is
\* made. (The bearer token is not among the required variables.)
C10_RequiredMissing ==
    (\E v \in {"API_KEY", "API_SECRET", "ACCESS_TOKEN", "ACCESS_SECRET",
               "GEMINI_API_KEY"} : env[v] # "set") =>
        /\ pc \in {"START", "CRASHED"}
        /\ NothingRan
        /\ pc = "CRASHED" => raised = "ValueError" /\ exit_status = <<1>>

\* the generation key is empty and the module failed to load
C10_Witness ==
    /\ env["GEMINI_API_KEY"] = "empty"
    /\ pc = "CRASHED"
    /\ NothingRan

====
